---- MODULE Spec2Model ----
(***************************************************************************)
(* Model of the wasm-core vector tile library: the tile-path round trip    *)
(* and generation pipeline of lib.rs, the MVT encoder of mvt_encoder.rs    *)
(* and the PMTiles v3 archive encoder of pmtiles_encoder.rs.               *)
(*                                                                         *)
(* Number representation.  TLC's integers are 32-bit signed, which is      *)
(* exactly Rust's i32, so an i32 is a TLC integer.  Rust's u32 and u64 do  *)
(* not fit, so a u32 is a tuple of 4 bytes and a u64 a tuple of 8 bytes,   *)
(* least significant byte first, and the operators below are the wrapping  *)
(* fixed-width arithmetic on them.  They are written without recursion,    *)
(* byte by byte, so that a long computation stays a shallow evaluation.    *)
(***************************************************************************)
EXTENDS Integers, Sequences, FiniteSets, Bags, TLC

(***************************************************************************)
(* Fixed-width unsigned arithmetic (Rust u32 / u64 / usize)                *)
(***************************************************************************)

\* a function on 1..n as the tuple of its values
Tuple(f) == f \o <<>>

\* the sum of the values of a sequence of naturals (a bag's cardinality is
\* the sum of its positive counts)
Sum(f) == BagCardinality([i \in {j \in DOMAIN f : f[j] > 0} |-> f[i]])

RECURSIVE Flatten(_)
\* the concatenation of a sequence of sequences, by halves
Flatten(seqs) ==
    IF Len(seqs) = 0 THEN <<>>
    ELSE IF Len(seqs) = 1 THEN seqs[1]
    ELSE Flatten(SubSeq(seqs, 1, Len(seqs) \div 2))
             \o Flatten(SubSeq(seqs, (Len(seqs) \div 2) + 1, Len(seqs)))

\* byte i of a, 0 beyond its width
Byte(a, i) == IF i >= 1 /\ i <= Len(a) THEN a[i] ELSE 0

\* the w-byte little-endian form of a natural n < 2^31 (an `as u32`/`as u64` cast)
NatToLE(n, w) ==
    Tuple([i \in 1..w |-> IF i > 4 THEN 0 ELSE (n \div (256 ^ (i - 1))) % 256])

\* u32 and u64 literals and casts of small values
U32(n) == NatToLE(n, 4)
U64(n) == NatToLE(n, 8)

\* `x as u64` for a u32 x: zero extension
U32asU64(x) == x \o <<0, 0, 0, 0>>

\* `v as u32` for a u64 v: truncation to the low 4 bytes
U64asU32(v) == SubSeq(v, 1, 4)

\* the value of a byte string, defined when it is below 2^31
LEToNat(b) ==
    Byte(b, 1) + 256 * Byte(b, 2) + 65536 * Byte(b, 3) + 16777216 * Byte(b, 4)

IsZero(a) == \A i \in 1..Len(a) : a[i] = 0

\* the value of the three bytes of a from byte i on, below 2^24
Chunk(a, i) == Byte(a, i) + 256 * Byte(a, i + 1) + 65536 * Byte(a, i + 2)

\* a + b + c for a carry c of 0 or 1, wrapping at the width of a (at most 8
\* bytes): the sum is taken three bytes at a time, each carry handed up
AddCarry(a, b, c) ==
    LET s1 == Chunk(a, 1) + Chunk(b, 1) + c
        s2 == Chunk(a, 4) + Chunk(b, 4) + (s1 \div 16777216)
        s3 == Chunk(a, 7) + Chunk(b, 7) + (s2 \div 16777216)
    IN  Tuple([i \in 1..Len(a) |->
                  ((IF i <= 3 THEN s1 ELSE IF i <= 6 THEN s2 ELSE s3)
                       \div (256 ^ ((i - 1) % 3))) % 256])

\* a + b, wrapping at the width of a
Add(a, b) == AddCarry(a, b, 0)

\* bitwise complement
Not(a) == Tuple([i \in 1..Len(a) |-> 255 - a[i]])

\* a - b, wrapping at the width of a
Sub(a, b) == AddCarry(a, Not(b), 1)

\* the sum of the products of the bytes of a and b that weigh 256^(k-1)
Column(a, b, k) ==
    LET t(i) == IF i <= k THEN a[i] * b[k + 1 - i] ELSE 0
    IN  ((t(1) + t(2)) + (t(3) + t(4))) + ((t(5) + t(6)) + (t(7) + t(8)))

\* a * b, wrapping at the width of a (at most 8 bytes): each column sum is
\* below 2^24 and is added in as its three bytes
Mul(a, b) ==
    LET w   == Len(a)
        col == Tuple([k \in 1..w |-> Column(a, b, k)])
        lo  == Tuple([k \in 1..w |-> col[k] % 256])
        mid == Tuple([k \in 1..w |-> IF k >= 2 THEN (col[k - 1] \div 256) % 256 ELSE 0])
        hi  == Tuple([k \in 1..w |-> IF k >= 3 THEN col[k - 2] \div 65536 ELSE 0])
    IN  Add(Add(lo, mid), hi)

\* a << n for n below the bit width of a
Shl(a, n) ==
    LET q == n \div 8
        r == n % 8
    IN  Tuple([i \in 1..Len(a) |->
                  ((Byte(a, i - q) * (2 ^ r)) % 256)
                      + (Byte(a, i - q - 1) \div (2 ^ (8 - r)))])

\* logical a >> n for n below the bit width of a
Shr(a, n) ==
    LET q == n \div 8
        r == n % 8
    IN  Tuple([i \in 1..Len(a) |->
                  (Byte(a, i + q) \div (2 ^ r))
                      + ((Byte(a, i + q + 1) * (2 ^ (8 - r))) % 256)])

\* bit k of a byte
Bit(p, k) == (p \div (2 ^ k)) % 2

\* p & q on bytes
BitAnd(p, q) ==
    IF p = 0 \/ q = 0 THEN 0
    ELSE
    ((Bit(p, 0) * Bit(q, 0) + 2 * Bit(p, 1) * Bit(q, 1))
        + (4 * Bit(p, 2) * Bit(q, 2) + 8 * Bit(p, 3) * Bit(q, 3)))
    + ((16 * Bit(p, 4) * Bit(q, 4) + 32 * Bit(p, 5) * Bit(q, 5))
        + (64 * Bit(p, 6) * Bit(q, 6) + 128 * Bit(p, 7) * Bit(q, 7)))

And(a, b) == Tuple([i \in 1..Len(a) |-> BitAnd(a[i], b[i])])
Xor(a, b) == Tuple([i \in 1..Len(a) |-> a[i] + b[i] - 2 * BitAnd(a[i], b[i])])
Or(a, b)  == Tuple([i \in 1..Len(a) |-> a[i] + b[i] - BitAnd(a[i], b[i])])

\* a < b as unsigned integers of the same width
Less(a, b) ==
    \E i \in 1..Len(a) : a[i] < b[i] /\ \A j \in (i + 1)..Len(a) : a[j] = b[j]

\* u32::min
Min(a, b) == IF Less(b, a) THEN b ELSE a

\* `b as u64` for a bool b
BoolU64(b) == IF b THEN U64(1) ELSE U64(0)

(***************************************************************************)
(* pmtiles_encoder.rs: the Hilbert tile id                                 *)
(***************************************************************************)

\* rot: reflect (when rx) and transpose unless ry; x and y are u32, n a u64.
\* x and y never exceed n - 1 here (xy_to_hilbert clamps them), so the
\* subtractions never underflow.
rot(n, x, y, rx, ry) ==
    IF ~ry
    THEN LET x1 == IF rx THEN Sub(U64asU32(Sub(n, U64(1))), x) ELSE x
             y1 == IF rx THEN Sub(U64asU32(Sub(n, U64(1))), y) ELSE y
         IN  [x |-> y1, y |-> x1]
    ELSE [x |-> x, y |-> y]

\* a loop pass that adds s * ((3 * rx) ^ ry) where the code adds
\* s * s * ((3 * rx) ^ ry): the levels of the curve then overlap
hilbert_step_linear(n, v) ==
    LET rx == ~IsZero(And(U32asU64(v.x), v.s))
        ry == ~IsZero(And(U32asU64(v.y), v.s))
        r  == rot(n, v.x, v.y, rx, ry)
    IN  [x |-> r.x, y |-> r.y, s |-> Shr(v.s, 1),
         d |-> Add(v.d, Mul(v.s, Xor(Mul(U64(3), BoolU64(rx)), BoolU64(ry))))]

\* a loop pass that adds s * s * ((3 * ry) ^ rx), with rx and ry exchanged
hilbert_step_transposed(n, v) ==
    LET rx == ~IsZero(And(U32asU64(v.x), v.s))
        ry == ~IsZero(And(U32asU64(v.y), v.s))
        r  == rot(n, v.x, v.y, rx, ry)
    IN  [x |-> r.x, y |-> r.y, s |-> Shr(v.s, 1),
         d |-> Add(v.d, Mul(Mul(v.s, v.s),
                            Xor(Mul(U64(3), BoolU64(ry)), BoolU64(rx))))]

\* one pass of the `while s > 0` loop of xy_to_hilbert on v = [x, y, s, d]
hilbert_step(n, v) ==
    LET rx == ~IsZero(And(U32asU64(v.x), v.s))
        ry == ~IsZero(And(U32asU64(v.y), v.s))
        r  == rot(n, v.x, v.y, rx, ry)
    IN  [x |-> r.x, y |-> r.y, s |-> Shr(v.s, 1),
         d |-> Add(v.d, Mul(Mul(v.s, v.s),
                            Xor(Mul(U64(3), BoolU64(rx)), BoolU64(ry))))]

RECURSIVE hilbert_loop(_, _)
\* the `while s > 0` loop of xy_to_hilbert
hilbert_loop(n, v) ==
    IF IsZero(v.s) THEN v.d ELSE hilbert_loop(n, hilbert_step(n, v))

\* xy_to_hilbert(x, y, z): x, y u32, z a u8 below 32 (1u32 << z overflows
\* from 32 on); a u64
xy_to_hilbert(x, y, z) ==
    LET max_coord == IF z > 0 THEN Sub(Shl(U32(1), z), U32(1)) ELSE U32(0)
        n         == Shl(U32(1), z)
    IN  IF z = 0 THEN U64(0)
        ELSE hilbert_loop(U32asU64(n),
                          [x |-> Min(x, max_coord), y |-> Min(y, max_coord),
                           s |-> U32asU64(Shr(n, 1)), d |-> U64(0)])

\* coord_to_tile_id(z, x, y): ((z as u64) << 56) | hilbert index
coord_to_tile_id(z, x, y) ==
    Or(Shl(U64(z), 56), xy_to_hilbert(x, y, z))

(***************************************************************************)
(* mvt_encoder.rs: command integers and zig-zag                            *)
(***************************************************************************)

\* the two's-complement bits of an i32 (a TLC integer), as 4 bytes
I32Bits(n) ==
    IF n >= 0 THEN NatToLE(n, 4)
    ELSE LET m == NatToLE((n + 2147483647) + 1, 4)   \* n + 2^31, in 0 .. 2^31 - 1
         IN  [m EXCEPT ![4] = m[4] + 128]

\* the i32 whose two's-complement bits are the 4 bytes b
BitsI32(b) ==
    LET low == b[1] + 256 * b[2] + 65536 * b[3] + 16777216 * (b[4] % 128)
    IN  IF b[4] >= 128 THEN (low - 2147483647) - 1 ELSE low

\* n >> 31 as a logical shift, which leaves the sign in the lowest bit only
I32Shr31_logical(n) == IF n < 0 THEN <<1, 0, 0, 0>> ELSE <<0, 0, 0, 0>>

\* n >> 31 on an i32: the arithmetic shift leaves the sign in every bit
I32Shr31(n) == IF n < 0 THEN <<255, 255, 255, 255>> ELSE <<0, 0, 0, 0>>

\* zigzag_encode(n: i32) -> u32: ((n << 1) ^ (n >> 31)) as u32
zigzag_encode(n) == Xor(Shl(I32Bits(n), 1), I32Shr31(n))

\* command_integer(id, count): (id & 0x7) | (count << 3), on u32
command_integer(id, count) == Or(And(U32(id), U32(7)), Shl(U32(count), 3))

(***************************************************************************)
(* lib.rs: TileCoord::to_path and the path parsing of generate_pmtiles.    *)
(* A string is the tuple of its UTF-8 bytes.                               *)
(***************************************************************************)

Slash  == 47
Plus   == 43
Digit0 == 48
DotPbf == <<46, 112, 98, 102>>

\* the remainder by 10 of the number made of the bytes of a from byte i up:
\* 256^k leaves 6 for every k >= 1
Rem10(a, i) ==
    (Byte(a, i) + 6 * Sum([j \in 1..Len(a) |-> IF j > i THEN a[j] ELSE 0])) % 10

\* a divided by 10, by long division from the top byte: [q, r]
DivMod10(a) ==
    [q |-> Tuple([i \in 1..Len(a) |-> (Rem10(a, i + 1) * 256 + a[i]) \div 10]),
     r |-> Rem10(a, 1)]

RECURSIVE Display(_)
\* the `{}` formatting of an unsigned integer: decimal, no sign, no padding
Display(a) ==
    LET dm == DivMod10(a)
    IN  IF IsZero(dm.q) THEN <<Digit0 + dm.r>>
        ELSE Display(dm.q) \o <<Digit0 + dm.r>>

\* TileCoord::to_path: format!("{}/{}/{}.pbf", z, x, y)
to_path(coord) ==
    Display(NatToLE(coord.z, 1)) \o <<Slash>> \o Display(coord.x)
        \o <<Slash>> \o Display(coord.y) \o DotPbf

RECURSIVE split(_, _)
\* str::split(sep): the pieces between separators, empty pieces kept
split(s, sep) ==
    IF \A i \in 1..Len(s) : s[i] # sep THEN <<s>>
    ELSE LET i == CHOOSE k \in 1..Len(s) :
                      s[k] = sep /\ \A j \in 1..(k - 1) : s[j] # sep
         IN  <<SubSeq(s, 1, i - 1)>> \o split(SubSeq(s, i + 1, Len(s)), sep)

RECURSIVE trim_end_matches(_, _)
\* str::trim_end_matches(pat): the suffix pat removed as often as it repeats
trim_end_matches(s, pat) ==
    IF Len(s) >= Len(pat) /\ SubSeq(s, Len(s) - Len(pat) + 1, Len(s)) = pat
    THEN trim_end_matches(SubSeq(s, 1, Len(s) - Len(pat)), pat)
    ELSE s

\* acc * 10 + the digit c, acc in 8 bytes
push_digit(acc, c) == Add(Mul(acc, U64(10)), U64(c - Digit0))

RECURSIVE parse_digits(_, _, _)
\* the digit loop of str::parse for a w-byte unsigned integer, acc in 8 bytes:
\* a non-digit or a value that leaves w bytes is an error
parse_digits(s, acc, w) ==
    CASE s = <<>> -> [ok |-> TRUE, v |-> SubSeq(acc, 1, w)]
      [] s # <<>> /\ (Head(s) < Digit0 \/ Head(s) > Digit0 + 9) -> [ok |-> FALSE]
      [] OTHER ->
           IF ~IsZero(SubSeq(push_digit(acc, Head(s)), w + 1, 8)) THEN [ok |-> FALSE]
           ELSE parse_digits(Tail(s), push_digit(acc, Head(s)), w)

\* str::parse::<uN>() for a w-byte unsigned integer: an optional '+', then
\* at least one digit
parse_unsigned(s, w) ==
    LET body == IF s # <<>> /\ Head(s) = Plus THEN Tail(s) ELSE s
    IN  IF body = <<>> THEN [ok |-> FALSE] ELSE parse_digits(body, U64(0), w)

\* Result::unwrap_or(0)
unwrap_or_zero(r, w) == IF r.ok THEN r.v ELSE NatToLE(0, w)

\* a reading of the path that keeps the ".pbf" on its last part
parse_tile_path_untrimmed(path) ==
    LET path_parts == split(path, Slash)
    IN  IF Len(path_parts) = 3
        THEN [z |-> LEToNat(unwrap_or_zero(parse_unsigned(path_parts[1], 1), 1)),
              x |-> unwrap_or_zero(parse_unsigned(path_parts[2], 4), 4),
              y |-> unwrap_or_zero(parse_unsigned(path_parts[3], 4), 4)]
        ELSE [z |-> 0, x |-> U32(0), y |-> U32(0)]

\* the closure of generate_pmtiles that turns a tile file's path back into
\* a TileCoord
parse_tile_path(path) ==
    LET path_parts == split(path, Slash)
    IN  IF Len(path_parts) = 3
        THEN [z |-> LEToNat(unwrap_or_zero(parse_unsigned(path_parts[1], 1), 1)),
              x |-> unwrap_or_zero(parse_unsigned(path_parts[2], 4), 4),
              y |-> unwrap_or_zero(
                        parse_unsigned(trim_end_matches(path_parts[3], DotPbf), 4), 4)]
        ELSE [z |-> 0, x |-> U32(0), y |-> U32(0)]

(***************************************************************************)
(* pmtiles_encoder.rs: gzip, directory, JSON metadata, header, archive     *)
(***************************************************************************)

\* GzEncoder::new(Vec::new(), Compression::default()), write_all, finish.
\* flate2 is outside the repository: its output is modelled as one gzip
\* member (10-byte header, one stored deflate block, 8-byte trailer) with the
\* CRC field abstracted to the sum of the bytes, so that a compressed length
\* is a function of the data and never its uncompressed length.  Writing to
\* a Vec cannot fail, so the map_err branches are never taken.
gzip(data) ==
    <<31, 139, 8, 0, 0, 0, 0, 0, 0, 255>>
        \o <<1>> \o NatToLE(Len(data), 2) \o Not(NatToLE(Len(data), 2)) \o data
        \o U32(Sum(data)) \o U32(Len(data))

RECURSIVE write_varint(_)
\* write_varint: the unsigned LEB128 bytes of a u64
write_varint(value) ==
    IF IsZero(Shr(value, 7)) THEN <<value[1] % 128>>
    ELSE <<(value[1] % 128) + 128>> \o write_varint(Shr(value, 7))

\* the two's-complement bits of an i64 that fits an i32, as 8 bytes
I64Bits(n) == I32Bits(n) \o I32Shr31(n)

\* zigzag_encode(value: i64) -> u64 of pmtiles_encoder.rs:
\* ((value << 1) ^ (value >> 63)) as u64
zigzag_encode_i64(value) ==
    Xor(Shl(I64Bits(value), 1), I32Shr31(value) \o I32Shr31(value))

\* section 1 of the directory: tile_id - last_tile_id of each entry, where
\* last_tile_id is 0 and then the tile_id of the entry before
tile_id_section(entries) ==
    Flatten([i \in 1..Len(entries) |->
                write_varint(Sub(entries[i].tile_id,
                                 IF i = 1 THEN U64(0) ELSE entries[i - 1].tile_id))])

\* section 2: a run length of 1 for every entry
run_length_section(entries) ==
    Flatten([i \in 1..Len(entries) |-> write_varint(U64(1))])

\* a section 3 that holds the zig-zag of each length itself, not of its
\* difference from the length before
length_section_absolute(entries) ==
    Flatten([i \in 1..Len(entries) |->
                write_varint(zigzag_encode_i64(entries[i].length))])

\* section 3: zig-zag of length - last_length
length_section(entries) ==
    Flatten([i \in 1..Len(entries) |->
                write_varint(zigzag_encode_i64(
                    entries[i].length
                        - (IF i = 1 THEN 0 ELSE entries[i - 1].length)))])

\* section 4: zig-zag of offset - last_offset
offset_section(entries) ==
    Flatten([i \in 1..Len(entries) |->
                write_varint(zigzag_encode_i64(
                    entries[i].offset
                        - (IF i = 1 THEN 0 ELSE entries[i - 1].offset)))])

\* the dir_buffer of encode_directory before compression
directory_buffer(entries) ==
    Flatten(<<write_varint(U64(Len(entries))),
              tile_id_section(entries),
              run_length_section(entries),
              length_section(entries),
              offset_section(entries)>>)

\* encode_directory(entries): the gzip of the directory buffer
encode_directory(entries) == gzip(directory_buffer(entries))

\* the tiny_polygons figure of one zoom.  The source computes it in f64; the
\* factors are taken here in hundredths.
tiny_polygons(total_features, zoom) ==
    IF zoom <= 5 THEN (total_features * (100 - zoom)) \div 100
    ELSE IF zoom <= 8
    THEN (total_features * (IF zoom = 6 THEN 125 ELSE 130)) \div 100
    ELSE (total_features
              * (IF 100 - 15 * (zoom - 8) > 1 THEN 100 - 15 * (zoom - 8) ELSE 1))
             \div 100

\* the strategies array: one tiny_polygons entry for each zoom of
\* min_zoom..=max_zoom (none when min_zoom > max_zoom)
strategies(total_features, min_zoom, max_zoom) ==
    Flatten([k \in 1..(max_zoom - min_zoom + 1) |->
                Display(U32(tiny_polygons(total_features, min_zoom + k - 1)))
                    \o <<44>>])

\* The JSON text of generate_json_metadata, abbreviated to the parts that
\* vary with the metadata (the layer name, the strategies, the zooms, the
\* feature count and the geometry type); the fixed keys and punctuation of
\* the TileJSON object are left out.
json_text(metadata) ==
    Flatten(<<<<123>>, metadata.layer_name, <<44>>,
              strategies(metadata.feature_count, metadata.min_zoom, metadata.max_zoom),
              Display(NatToLE(metadata.min_zoom, 1)), <<44>>,
              Display(NatToLE(metadata.max_zoom, 1)), <<44>>,
              Display(U32(metadata.feature_count)), <<44>>,
              metadata.geometry_type, <<125>>>>)

\* generate_json_metadata(metadata): the gzip of the JSON text
generate_json_metadata(metadata) == gzip(json_text(metadata))

\* `(degrees * 10_000_000.0) as i32`, degrees a whole number: the cast
\* saturates
E7(degrees) ==
    IF degrees > 214 THEN 2147483647
    ELSE IF degrees < -214 THEN (-2147483647) - 1
    ELSE degrees * 10000000

\* b"PMTiles\x03"
Magic == <<80, 77, 84, 105, 108, 101, 115, 3>>

\* a header of format version 2 that stops after the three counts
write_header_version2(metadata, tile_count, root_directory_offset, root_directory_length, json_metadata_offset, json_metadata_length, tile_data_offset, tile_data_length) ==
    Flatten(<<<<80, 77, 84, 105, 108, 101, 115, 2>>,
              U64(root_directory_offset), U64(root_directory_length),
              U64(json_metadata_offset), U64(json_metadata_length),
              U64(0), U64(0),
              U64(tile_data_offset), U64(tile_data_length),
              U64(tile_count), U64(tile_count), U64(tile_count)>>)

\* write_header: the header bytes in the order they are written.  The zooms
\* of the model are small, so min_zoom + max_zoom does not overflow the u8.
write_header(metadata, tile_count, root_directory_offset, root_directory_length, json_metadata_offset, json_metadata_length, tile_data_offset, tile_data_length) ==
    Flatten(<<Magic,
              U64(root_directory_offset), U64(root_directory_length),
              U64(json_metadata_offset), U64(json_metadata_length),
              U64(0), U64(0),
              U64(tile_data_offset), U64(tile_data_length),
              U64(tile_count), U64(tile_count), U64(tile_count),
              <<1, 2, 2, 1>>,
              <<metadata.min_zoom, metadata.max_zoom>>,
              I32Bits(E7(metadata.bounds[1])), I32Bits(E7(metadata.bounds[2])),
              I32Bits(E7(metadata.bounds[3])), I32Bits(E7(metadata.bounds[4])),
              <<(metadata.min_zoom + metadata.max_zoom) \div 2>>,
              I32Bits(E7(metadata.center[1])), I32Bits(E7(metadata.center[2]))>>)

\* the TileEntry built for one input tile (lines 24-31)
new_entry(tile) ==
    [tile_id |-> coord_to_tile_id(tile.coord.z, tile.coord.x, tile.coord.y),
     offset  |-> 0,
     length  |-> Len(tile.data),
     data    |-> tile.data]

\* a sort that keeps only the first entry of every tile_id
sort_dedup_by_tile_id(entries) ==
    LET n     == Len(entries)
        keep  == {i \in 1..n : \A j \in 1..(i - 1) :
                                   entries[j].tile_id # entries[i].tile_id}
        place == [i \in keep |->
                     1 + Cardinality({j \in keep :
                             Less(entries[j].tile_id, entries[i].tile_id)})]
    IN  Tuple([k \in 1..Cardinality(keep) |->
                  entries[CHOOSE i \in keep : place[i] = k]])

\* tile_entries.sort_by_key(|e| e.tile_id), a stable sort: an entry goes
\* behind every entry of a smaller tile_id and every earlier entry of the
\* same tile_id
sort_by_tile_id(entries) ==
    LET n     == Len(entries)
        place == Tuple([i \in 1..n |->
                     1 + Cardinality({j \in 1..n :
                             \/ Less(entries[j].tile_id, entries[i].tile_id)
                             \/ j < i /\ entries[j].tile_id = entries[i].tile_id})])
    IN  Tuple([k \in 1..n |-> entries[CHOOSE i \in 1..n : place[i] = k]])

\* a loop body that records the length of the tile before compression
compressed_entry_raw_length(entry, current_relative_offset) ==
    [tile_id |-> entry.tile_id,
     offset  |-> current_relative_offset,
     length  |-> entry.length,
     data    |-> gzip(entry.data)]

\* the compressed TileEntry of the loop body (lines 51-64)
compressed_entry(entry, current_relative_offset) ==
    LET compressed_data == gzip(entry.data)
    IN  [tile_id |-> entry.tile_id,
         offset  |-> current_relative_offset,
         length  |-> Len(compressed_data),
         data    |-> compressed_data]

\* one pass of the loop of lines 49-69 on v = [current_relative_offset,
\* tile_data_length, compressed_tile_entries]
compress_step(entry, v) ==
    LET c == compressed_entry(entry, v.current_relative_offset)
    IN  [current_relative_offset |-> v.current_relative_offset + c.length,
         tile_data_length        |-> v.tile_data_length + c.length,
         compressed_tile_entries |-> Append(v.compressed_tile_entries, c)]

RECURSIVE compress_loop(_, _, _, _)
\* the passes of that loop for entries lo..hi, in order, from v: a run of
\* several passes is its first half followed by its second half
compress_loop(entries, lo, hi, v) ==
    IF lo > hi THEN v
    ELSE IF lo = hi THEN compress_step(entries[lo], v)
    ELSE compress_loop(entries, ((lo + hi) \div 2) + 1, hi,
                       compress_loop(entries, lo, (lo + hi) \div 2, v))

\* the 127 of line 40
header_size == 127

\* an archive whose header puts the tile data where the JSON metadata starts
write_archive_overlapping(metadata, tile_entries, tile_data_length, directory_data, json_metadata) ==
    LET directory_length      == Len(directory_data)
        root_directory_offset == header_size
        json_metadata_offset  == root_directory_offset + directory_length
        json_metadata_length  == Len(json_metadata)
        tile_data_offset      == json_metadata_offset
    IN  [ok |-> TRUE,
         bytes |-> Flatten(<<write_header(metadata, Len(tile_entries),
                                  root_directory_offset, directory_length,
                                  json_metadata_offset, json_metadata_length,
                                  tile_data_offset, tile_data_length),
                             directory_data, json_metadata,
                             Flatten([i \in 1..Len(tile_entries) |->
                                         tile_entries[i].data])>>),
         tile_entries |-> tile_entries]

\* lines 108-146: the offsets of the sections, then the header, the
\* directory, the JSON metadata and the tile data written in that order.
\* The tile_entries handed to encode_directory are kept beside the bytes,
\* for the properties that speak of them.
write_archive(metadata, tile_entries, tile_data_length, directory_data, json_metadata) ==
    LET directory_length      == Len(directory_data)
        root_directory_offset == header_size
        json_metadata_offset  == root_directory_offset + directory_length
        json_metadata_length  == Len(json_metadata)
        tile_data_offset      == json_metadata_offset + json_metadata_length
    IN  [ok |-> TRUE,
         bytes |-> Flatten(<<write_header(metadata, Len(tile_entries),
                                  root_directory_offset, directory_length,
                                  json_metadata_offset, json_metadata_length,
                                  tile_data_offset, tile_data_length),
                             directory_data, json_metadata,
                             Flatten([i \in 1..Len(tile_entries) |->
                                         tile_entries[i].data])>>),
         tile_entries |-> tile_entries]

\* lines 95-105: the directory and the JSON metadata of the compressed
\* entries, where done is the state the loop of lines 49-69 ends in
encode_sections(metadata, done) ==
    write_archive(metadata, done.compressed_tile_entries, done.tile_data_length,
                  encode_directory(done.compressed_tile_entries),
                  generate_json_metadata(metadata))

\* lines 44-70: the loop over the sorted entries, from offset 0
compress_entries(sorted) ==
    compress_loop(sorted, 1, Len(sorted),
                  [current_relative_offset |-> 0, tile_data_length |-> 0,
                   compressed_tile_entries |-> <<>>])

\* an encoder that goes on to sort and write without looking whether there
\* are tiles
encode_pmtiles_unchecked(tiles, metadata) ==
    encode_sections(
        metadata,
        compress_entries(
            sort_by_tile_id([i \in 1..Len(tiles) |-> new_entry(tiles[i])])))

\* encode_pmtiles(tiles, metadata): the archive bytes or the error
encode_pmtiles(tiles, metadata) ==
    IF tiles = <<>> THEN [ok |-> FALSE, err |-> "Tiles are empty"]
    ELSE encode_sections(
             metadata,
             compress_entries(
                 sort_by_tile_id([i \in 1..Len(tiles) |-> new_entry(tiles[i])])))

(***************************************************************************)
(* mvt_encoder.rs: geometry streams, dictionaries, the layer               *)
(*                                                                         *)
(* A TileGeometry is [kind |-> "Point", x, y], [kind |-> "LineString",     *)
(* coords] or [kind |-> "Polygon", rings]; a coordinate is <<x, y>> of     *)
(* i32.  A property list is the sequence of <<key, value>> in the order    *)
(* the property map iterates.  A JSON value is [t, s, i, b]: t its         *)
(* variant, s the string (or the decimal text of a float), i the integer,  *)
(* b the boolean.  An Option is <<>> (None) or <<v>> (Some(v)).            *)
(***************************************************************************)

\* the LineTo parameters of the loops `for i in 1..count` (lines 177-182 and
\* 212-217): the zig-zag deltas of points 2 .. count of pts (counted from 1),
\* each against the point before it
line_to_params(pts, count) ==
    Flatten([k \in 1..(count - 1) |->
                <<zigzag_encode(pts[k + 1][1] - pts[k][1]),
                  zigzag_encode(pts[k + 1][2] - pts[k][2])>>])

\* ring commands that keep the closing point of the ring as a vertex
ring_commands_closing_point(ring) ==
    IF Len(ring) < 4 THEN <<>>
    ELSE <<command_integer(1, 1),
           zigzag_encode(ring[1][1]), zigzag_encode(ring[1][2])>>
             \o <<command_integer(2, Len(ring) - 1)>>
             \o line_to_params(ring, Len(ring))
             \o <<command_integer(7, 1)>>

\* the commands one ring adds (lines 195-223)
ring_commands(ring) ==
    IF Len(ring) < 4 THEN <<>>
    ELSE LET point_count == Len(ring) - 1
         IN  <<command_integer(1, 1),
               zigzag_encode(ring[1][1]), zigzag_encode(ring[1][2])>>
                 \o (IF point_count > 1
                     THEN <<command_integer(2, point_count - 1)>>
                              \o line_to_params(ring, point_count)
                     ELSE <<>>)
                 \o <<command_integer(7, 1)>>

\* the commands of the loop over the rings (lines 194-233)
rings_commands(rings) ==
    Flatten([i \in 1..Len(rings) |-> ring_commands(rings[i])])

\* a geometry encoder whose LineTo parameters are the points themselves,
\* not their deltas
encode_geometry_absolute(geometry) ==
    CASE geometry.kind = "Point" ->
           [ok |-> TRUE, geom_type |-> "Point",
            commands |-> <<command_integer(1, 1),
                           zigzag_encode(geometry.x), zigzag_encode(geometry.y)>>]
      [] geometry.kind = "LineString" ->
           LET coords == geometry.coords
           IN  IF coords = <<>> THEN [ok |-> FALSE, err |-> "LineString is empty"]
               ELSE [ok |-> TRUE, geom_type |-> "Linestring",
                     commands |->
                         <<command_integer(1, 1),
                           zigzag_encode(coords[1][1]), zigzag_encode(coords[1][2])>>
                             \o (IF Len(coords) > 1
                                 THEN <<command_integer(2, Len(coords) - 1)>>
                                          \o Flatten([k \in 1..(Len(coords) - 1) |->
                                                 <<zigzag_encode(coords[k + 1][1]),
                                                   zigzag_encode(coords[k + 1][2])>>])
                                 ELSE <<>>)]
      [] geometry.kind = "Polygon" ->
           IF geometry.rings = <<>> THEN [ok |-> FALSE, err |-> "Polygon is empty"]
           ELSE [ok |-> TRUE, geom_type |-> "Polygon",
                 commands |-> rings_commands(geometry.rings)]

\* encode_geometry(geometry): the geometry type and the command stream, or
\* the error
encode_geometry(geometry) ==
    CASE geometry.kind = "Point" ->
           [ok |-> TRUE, geom_type |-> "Point",
            commands |-> <<command_integer(1, 1),
                           zigzag_encode(geometry.x), zigzag_encode(geometry.y)>>]
      [] geometry.kind = "LineString" ->
           LET coords == geometry.coords
           IN  IF coords = <<>> THEN [ok |-> FALSE, err |-> "LineString is empty"]
               ELSE [ok |-> TRUE, geom_type |-> "Linestring",
                     commands |->
                         <<command_integer(1, 1),
                           zigzag_encode(coords[1][1]), zigzag_encode(coords[1][2])>>
                             \o (IF Len(coords) > 1
                                 THEN <<command_integer(2, Len(coords) - 1)>>
                                          \o line_to_params(coords, Len(coords))
                                 ELSE <<>>)]
      [] geometry.kind = "Polygon" ->
           IF geometry.rings = <<>> THEN [ok |-> FALSE, err |-> "Polygon is empty"]
           ELSE [ok |-> TRUE, geom_type |-> "Polygon",
                 commands |-> rings_commands(geometry.rings)]

\* the JSON values of the model
JsonString(s) == [t |-> "String", s |-> s, i |-> 0, b |-> FALSE]
JsonInt(i)    == [t |-> "Int", s |-> <<>>, i |-> i, b |-> FALSE]
JsonDouble(s) == [t |-> "Double", s |-> s, i |-> 0, b |-> FALSE]
JsonBool(b)   == [t |-> "Bool", s |-> <<>>, i |-> 0, b |-> b]
JsonNull      == [t |-> "Null", s |-> <<>>, i |-> 0, b |-> FALSE]

\* ValueKey::from_json: the key a value is interned under
ValueKey_from_json(value) ==
    CASE value.t = "String" -> [variant |-> "String", s |-> value.s, i |-> 0, b |-> FALSE]
      [] value.t = "Int"    -> [variant |-> "Int", s |-> <<>>, i |-> value.i, b |-> FALSE]
      [] value.t = "Double" -> [variant |-> "Double", s |-> value.s, i |-> 0, b |-> FALSE]
      [] value.t = "Bool"   -> [variant |-> "Bool", s |-> <<>>, i |-> 0, b |-> value.b]
      [] OTHER              -> [variant |-> "String", s |-> <<>>, i |-> 0, b |-> FALSE]

\* Value::default(): every field None
Value_default ==
    [string_value |-> <<>>, int_value |-> <<>>, double_value |-> <<>>,
     bool_value |-> <<>>]

\* json_to_mvt_value: the MVT Value of a JSON value
json_to_mvt_value(value) ==
    CASE value.t = "String" -> [Value_default EXCEPT !.string_value = <<value.s>>]
      [] value.t = "Int"    -> [Value_default EXCEPT !.int_value = <<value.i>>]
      [] value.t = "Double" -> [Value_default EXCEPT !.double_value = <<value.s>>]
      [] value.t = "Bool"   -> [Value_default EXCEPT !.bool_value = <<value.b>>]
      [] OTHER              -> Value_default

\* m with k mapped to v (HashMap::insert)
MapInsert(m, k, v) == [x \in DOMAIN m \cup {k} |-> IF x = k THEN v ELSE m[x]]

\* the empty HashMap
EmptyMap == [x \in {} |-> 0]

RECURSIVE encode_properties_push(_, _)
\* a property loop that pushes the key of every property without looking
\* it up
encode_properties_push(properties, d) ==
    IF properties = <<>> THEN d
    ELSE LET key       == Head(properties)[1]
             value     == Head(properties)[2]
             key_idx   == Len(d.keys)
             value_key == ValueKey_from_json(value)
             new_value == value_key \notin DOMAIN d.value_index
             value_idx == IF new_value THEN Len(d.values)
                          ELSE d.value_index[value_key]
         IN  encode_properties_push(Tail(properties),
                 [keys        |-> Append(d.keys, key),
                  key_index   |-> MapInsert(d.key_index, key, key_idx),
                  values      |-> IF new_value
                                  THEN Append(d.values, json_to_mvt_value(value))
                                  ELSE d.values,
                  value_index |-> IF new_value
                                  THEN MapInsert(d.value_index, value_key, value_idx)
                                  ELSE d.value_index,
                  tags        |-> d.tags \o <<key_idx, value_idx>>])

RECURSIVE encode_properties(_, _)
\* the loop over one feature's properties (lines 34-58): d holds keys,
\* values, key_index, value_index and the tags gathered so far
encode_properties(properties, d) ==
    IF properties = <<>> THEN d
    ELSE LET key       == Head(properties)[1]
             value     == Head(properties)[2]
             new_key   == key \notin DOMAIN d.key_index
             key_idx   == IF new_key THEN Len(d.keys) ELSE d.key_index[key]
             value_key == ValueKey_from_json(value)
             new_value == value_key \notin DOMAIN d.value_index
             value_idx == IF new_value THEN Len(d.values)
                          ELSE d.value_index[value_key]
         IN  encode_properties(Tail(properties),
                 [keys        |-> IF new_key THEN Append(d.keys, key) ELSE d.keys,
                  key_index   |-> IF new_key THEN MapInsert(d.key_index, key, key_idx)
                                  ELSE d.key_index,
                  values      |-> IF new_value
                                  THEN Append(d.values, json_to_mvt_value(value))
                                  ELSE d.values,
                  value_index |-> IF new_value
                                  THEN MapInsert(d.value_index, value_key, value_idx)
                                  ELSE d.value_index,
                  tags        |-> d.tags \o <<key_idx, value_idx>>])

RECURSIVE encode_features(_, _, _, _)
\* the loop over the features (lines 30-92); idx counts from 0; the first
\* geometry error ends the call
encode_features(features, idx, d, encoded_features) ==
    IF idx >= Len(features)
    THEN [ok |-> TRUE, keys |-> d.keys, values |-> d.values,
          features |-> encoded_features]
    ELSE LET tile_feature == features[idx + 1]
             d1 == encode_properties(tile_feature.properties, [d EXCEPT !.tags = <<>>])
             g  == encode_geometry(tile_feature.geometry)
         IN  IF ~g.ok THEN [ok |-> FALSE, err |-> g.err]
             ELSE encode_features(features, idx + 1, d1,
                      Append(encoded_features,
                             [id |-> idx, tags |-> d1.tags,
                              type |-> g.geom_type, geometry |-> g.commands]))

\* lines 113-121: the Layer of the encoded features r, or the error of r
layer_of_features(r, layer_name) ==
    IF ~r.ok THEN r
    ELSE [ok |-> TRUE,
          layer |-> [version |-> 2, name |-> layer_name,
                     features |-> r.features, keys |-> r.keys,
                     values |-> r.values, extent |-> 4096]]

\* a layer builder that does not look whether there are features
build_layer_unchecked(features, layer_name) ==
    layer_of_features(
        encode_features(features, 0,
            [keys |-> <<>>, values |-> <<>>, key_index |-> EmptyMap,
             value_index |-> EmptyMap, tags |-> <<>>], <<>>),
        layer_name)

\* the Layer encode_tile builds (lines 16-121), or the error
build_layer(features, layer_name) ==
    IF features = <<>> THEN [ok |-> FALSE, err |-> "Features are empty"]
    ELSE layer_of_features(
             encode_features(features, 0,
                 [keys |-> <<>>, values |-> <<>>, key_index |-> EmptyMap,
                  value_index |-> EmptyMap, tags |-> <<>>], <<>>),
             layer_name)

(***************************************************************************)
(* prost's Message::encode for the vector_tile schema.  prost is outside   *)
(* the repository; the protobuf wire format is modelled field by field,    *)
(* except that a double is written as 8 zero bytes.                        *)
(***************************************************************************)

Varint(n) == write_varint(U64(n))
LenDelimited(tag, bytes) == <<tag>> \o Varint(Len(bytes)) \o bytes

PackedU32(us) == Flatten([i \in 1..Len(us) |-> write_varint(U32asU64(us[i]))])
PackedNat(ns) == Flatten([i \in 1..Len(ns) |-> Varint(ns[i])])

GeomTypeNumber(t) ==
    CASE t = "Point" -> 1 [] t = "Linestring" -> 2 [] t = "Polygon" -> 3 [] OTHER -> 0

FeatureBytes(f) ==
    Flatten(<<<<8>>, Varint(f.id),
              IF f.tags = <<>> THEN <<>> ELSE LenDelimited(18, PackedNat(f.tags)),
              <<24>>, Varint(GeomTypeNumber(f.type)),
              IF f.geometry = <<>> THEN <<>>
              ELSE LenDelimited(34, PackedU32(f.geometry))>>)

ValueBytes(v) ==
    Flatten(<<IF v.string_value = <<>> THEN <<>>
              ELSE LenDelimited(10, v.string_value[1]),
              IF v.double_value = <<>> THEN <<>> ELSE <<25, 0, 0, 0, 0, 0, 0, 0, 0>>,
              IF v.int_value = <<>> THEN <<>>
              ELSE <<32>> \o write_varint(I64Bits(v.int_value[1])),
              IF v.bool_value = <<>> THEN <<>>
              ELSE <<56, IF v.bool_value[1] THEN 1 ELSE 0>>>>)

LayerBytes(layer) ==
    Flatten(<<LenDelimited(10, layer.name),
              Flatten([i \in 1..Len(layer.features) |->
                          LenDelimited(18, FeatureBytes(layer.features[i]))]),
              Flatten([i \in 1..Len(layer.keys) |-> LenDelimited(26, layer.keys[i])]),
              Flatten([i \in 1..Len(layer.values) |->
                          LenDelimited(34, ValueBytes(layer.values[i]))]),
              <<40>>, Varint(layer.extent),
              <<120>>, Varint(layer.version)>>)

\* tile.encode(&mut buf) for a tile of one layer; encoding into a Vec cannot fail
TileBytes(layer) == LenDelimited(26, LayerBytes(layer))

\* lines 123-143: the bytes of the tile of the layer built, or the error of r
tile_of_layer(r) ==
    IF ~r.ok THEN r
    ELSE [ok |-> TRUE, layer |-> r.layer, bytes |-> TileBytes(r.layer)]

\* encode_tile(features, layer_name): the layer built and its bytes, or the error
encode_tile(features, layer_name) == tile_of_layer(build_layer(features, layer_name))

(***************************************************************************)
(* The modules lib.rs calls that are not among the sources: the GeoJSON    *)
(* parser, the projection and the tiler.  They are modelled from sections  *)
(* 4.1, 4.2, 4.5 and 7 of the specification.                               *)
(*                                                                         *)
(* A document is [valid, features].  A feature is [geometry, properties];  *)
(* a geometry is [kind, rings]: a Point has one ring of one vertex, a      *)
(* LineString one ring.  A vertex is <<lon, lat>> in whole degrees, taken  *)
(* from the grid on which the web-mercator projection is exact in          *)
(* quarters of the unit square.                                            *)
(***************************************************************************)

\* 4 * x_unit of a longitude of the grid -180, -90, 0, 90
XQuarter(lon) == (lon + 180) \div 90

\* 4 * y_unit of a latitude of the grid 85, 66, 0, -66 (66 and 85 stand for
\* the latitudes 66.51326 and 85.05113, where y_unit is 1/4 and 0)
YQuarter(lat) ==
    CASE lat = 85 -> 0 [] lat = 66 -> 1 [] lat = 0 -> 2 [] lat = -66 -> 3

\* floor(unit * 2^z) for unit = q / 4
TileIndex(q, z) ==
    IF z >= 2 THEN q * (2 ^ (z - 2)) ELSE (q * (2 ^ z)) \div 4

\* round((unit * 2^z - tile) * 4096) for unit = q / 4
LocalCoord(q, z, tile) ==
    IF z >= 2 THEN (q * (2 ^ (z - 2)) - tile) * 4096
    ELSE (q * (2 ^ z) - 4 * tile) * 1024

\* every vertex of a list of features
AllVertices(features) ==
    Flatten([i \in 1..Len(features) |-> Flatten(features[i].geometry.rings)])

SeqMin(ns) == CHOOSE m \in {ns[i] : i \in 1..Len(ns)} : \A i \in 1..Len(ns) : m <= ns[i]
SeqMax(ns) == CHOOSE m \in {ns[i] : i \in 1..Len(ns)} : \A i \in 1..Len(ns) : m >= ns[i]

\* geojson_parser::parse_geojson
parse_geojson(doc) ==
    IF doc.valid THEN [ok |-> TRUE, features |-> doc.features]
    ELSE [ok |-> FALSE, err |-> "InvalidInput"]

\* geojson_parser::calculate_bounds: (min_lon, min_lat, max_lon, max_lat)
calculate_bounds(features) ==
    LET vs == AllVertices(features)
    IN  IF vs = <<>> THEN [ok |-> FALSE, err |-> "NoBounds"]
        ELSE LET lons == [i \in 1..Len(vs) |-> vs[i][1]]
                 lats == [i \in 1..Len(vs) |-> vs[i][2]]
             IN  [ok |-> TRUE,
                  bounds |-> <<SeqMin(lons), SeqMin(lats), SeqMax(lons), SeqMax(lats)>>]

\* geojson_parser::calculate_center, in whole degrees
calculate_center(bounds) ==
    <<(bounds[1] + bounds[3]) \div 2, (bounds[2] + bounds[4]) \div 2>>

\* the geometry of a feature in the frame of tile (tx, ty) at zoom z
TileGeometryOf(geometry, z, tx, ty) ==
    LET local(v) == <<LocalCoord(XQuarter(v[1]), z, tx), LocalCoord(YQuarter(v[2]), z, ty)>>
        ring(r)  == Tuple([i \in 1..Len(r) |-> local(r[i])])
        rings    == Tuple([j \in 1..Len(geometry.rings) |-> ring(geometry.rings[j])])
    IN  CASE geometry.kind = "Point" ->
               [kind |-> "Point", x |-> rings[1][1][1], y |-> rings[1][1][2]]
          [] geometry.kind = "LineString" ->
               [kind |-> "LineString", coords |-> rings[1]]
          [] geometry.kind = "Polygon" ->
               [kind |-> "Polygon", rings |-> rings]

\* the tiles the bounding box of a feature touches at zoom z, as <<x, y>>
TilesTouched(feature, z) ==
    LET vs == Flatten(feature.geometry.rings)
        xs == [i \in 1..Len(vs) |-> TileIndex(XQuarter(vs[i][1]), z)]
        ys == [i \in 1..Len(vs) |-> TileIndex(YQuarter(vs[i][2]), z)]
    IN  IF vs = <<>> THEN {}
        ELSE (SeqMin(xs)..SeqMax(xs)) \X (SeqMin(ys)..SeqMax(ys))

\* the TileFeatures of tile t at zoom z, in feature order
FeaturesOfTile(features, z, t) ==
    Flatten([i \in 1..Len(features) |->
                IF t \in TilesTouched(features[i], z)
                THEN <<[geometry   |-> TileGeometryOf(features[i].geometry, z, t[1], t[2]),
                        properties |-> features[i].properties]>>
                ELSE <<>>])

\* the tiles of a set in the order of x, then y
SetToSortedSeq(S) ==
    Tuple([k \in 1..Cardinality(S) |->
              CHOOSE a \in S :
                  Cardinality({b \in S : b[1] < a[1] \/ (b[1] = a[1] /\ b[2] < a[2])})
                      = k - 1])

\* tiler::tile_features(features, zoom): the tiles any feature touches, each
\* with its TileFeatures; a feature without vertices is skipped
tile_features(features, zoom) ==
    IF zoom > 30 THEN [ok |-> FALSE, err |-> "InvalidZoom"]
    ELSE LET touched == UNION {TilesTouched(features[i], zoom) : i \in 1..Len(features)}
             order   == SetToSortedSeq(touched)
         IN  [ok |-> TRUE,
              tiles |-> Tuple([k \in 1..Len(order) |->
                            [coord    |-> [z |-> zoom, x |-> U32(order[k][1]),
                                           y |-> U32(order[k][2])],
                             features |-> FeaturesOfTile(features, zoom, order[k])]])]

(***************************************************************************)
(* lib.rs: metadata and the three entry points                             *)
(***************************************************************************)

\* the text of "Point", "LineString", "Polygon"
TextPoint      == <<80, 111, 105, 110, 116>>
TextLineString == <<76, 105, 110, 101, 83, 116, 114, 105, 110, 103>>
TextPolygon    == <<80, 111, 108, 121, 103, 111, 110>>

\* the number of features of one geometry kind (lines 151-161)
CountKind(features, kind) ==
    Cardinality({i \in 1..Len(features) : features[i].geometry.kind = kind})

\* a choice that breaks ties the other way round: point, then line string
dominant_geometry_type_point_first(point_count, linestring_count, polygon_count) ==
    IF point_count >= polygon_count /\ point_count >= linestring_count
    THEN TextPoint
    ELSE IF linestring_count >= polygon_count THEN TextLineString
    ELSE TextPolygon

\* the geometry type of lines 163-169
dominant_geometry_type(point_count, linestring_count, polygon_count) ==
    IF polygon_count >= point_count /\ polygon_count >= linestring_count
    THEN TextPolygon
    ELSE IF linestring_count >= point_count THEN TextLineString
    ELSE TextPoint

\* the type label of a JSON value (lines 64-70)
value_type(value) ==
    CASE value.t = "String" -> "String"
      [] value.t \in {"Int", "Double"} -> "Number"
      [] value.t = "Bool" -> "Boolean"
      [] OTHER -> "String"

\* analyze_properties: the type of each field, and for each field the number
\* of its distinct values, capped at 100, with the type of the attribute.
\* The attribute statistics are kept as a set; their value lists are left out.
analyze_properties(features) ==
    LET props == Flatten([i \in 1..Len(features) |-> features[i].properties])
        keys  == {props[i][1] : i \in 1..Len(props)}
        types(k)  == {value_type(props[i][2]) : i \in {j \in 1..Len(props) : props[j][1] = k}}
        unique(k) == {ValueKey_from_json(props[i][2]) :
                          i \in {j \in 1..Len(props) : props[j][1] = k}}
        fields == [k \in keys |->
                      IF Cardinality(types(k)) = 1 THEN CHOOSE t \in types(k) : TRUE
                      ELSE "String"]
    IN  [fields |-> fields,
         attributes |-> {[attribute |-> k,
                          count |-> IF Cardinality(unique(k)) > 100 THEN 100
                                    ELSE Cardinality(unique(k)),
                          type |-> IF fields[k] = "Number" THEN "number" ELSE "string"] :
                             k \in keys}]

\* lines 196-199: the TileFiles of the tiles of one zoom, where mvt holds
\* the result of encode_tile for each; the first error ends the call
tile_files_of(tiles, mvt) ==
    LET failed == {i \in 1..Len(tiles) : ~mvt[i].ok}
    IN  IF failed # {}
        THEN [ok |-> FALSE,
              err |-> mvt[CHOOSE i \in failed : \A j \in failed : i <= j].err]
        ELSE [ok |-> TRUE,
              tile_files |-> Tuple([i \in 1..Len(tiles) |->
                                 [path |-> to_path(tiles[i].coord),
                                  data |-> mvt[i].bytes]])]

\* `for (coord, features) in tiles` (lines 194-200)
encode_tiles(tiles, layer_name) ==
    tile_files_of(tiles,
        Tuple([i \in 1..Len(tiles) |-> encode_tile(tiles[i].features, layer_name)]))

\* a pass that puts the tiles of its zoom behind those of the later zooms
zoom_pass_reversed(tiles, files, rest) ==
    CASE ~tiles.ok -> [ok |-> FALSE, err |-> tiles.err]
      [] tiles.ok /\ ~files.ok -> files
      [] tiles.ok /\ files.ok /\ ~rest.ok -> rest
      [] OTHER -> [ok |-> TRUE, tile_files |-> rest.tile_files \o files.tile_files]

\* one pass of `for zoom in min_zoom..=max_zoom`: tiles is the result of
\* tile_features, files that of encoding its tiles, rest that of the passes
\* that follow; the first error ends the loop
zoom_pass(tiles, files, rest) ==
    CASE ~tiles.ok -> [ok |-> FALSE, err |-> tiles.err]
      [] tiles.ok /\ ~files.ok -> files
      [] tiles.ok /\ files.ok /\ ~rest.ok -> rest
      [] OTHER -> [ok |-> TRUE, tile_files |-> files.tile_files \o rest.tile_files]

\* lines 191-200 for the result tiles of tile_features
zoom_tiles(tiles, layer_name, rest) ==
    zoom_pass(tiles, encode_tiles(tiles.tiles, layer_name), rest)

RECURSIVE zoom_loop(_, _, _, _)
\* `for zoom in min_zoom..=max_zoom` (lines 189-201) from zoom on: no pass
\* when zoom > max_zoom
zoom_loop(features, zoom, max_zoom, layer_name) ==
    IF zoom > max_zoom THEN [ok |-> TRUE, tile_files |-> <<>>]
    ELSE zoom_tiles(tile_features(features, zoom), layer_name,
                    zoom_loop(features, zoom + 1, max_zoom, layer_name))

\* lines 171-184: the TileMetadata
tile_metadata(features, bounds, props, min_zoom, max_zoom, layer_name) ==
    [min_zoom |-> min_zoom, max_zoom |-> max_zoom,
     layer_name |-> layer_name,
     bounds |-> bounds,
     center |-> calculate_center(bounds),
     feature_count |-> Len(features),
     geometry_type |->
         dominant_geometry_type(CountKind(features, "Point"),
                                CountKind(features, "LineString"),
                                CountKind(features, "Polygon")),
     fields |-> props.fields,
     attributes |-> props.attributes]

\* lines 147-203 for the parsed features: b is the result of
\* calculate_bounds, files that of the zoom loop
tiles_of_features(features, b, files, min_zoom, max_zoom, layer_name) ==
    CASE ~b.ok -> b
      [] b.ok /\ ~files.ok -> files
      [] OTHER -> [ok |-> TRUE, tile_files |-> files.tile_files,
                   metadata |-> tile_metadata(features, b.bounds,
                                              analyze_properties(features),
                                              min_zoom, max_zoom, layer_name)]

\* lines 144-203 for the result parsed of parse_geojson
tiles_of_parsed(parsed, min_zoom, max_zoom, layer_name) ==
    IF ~parsed.ok THEN parsed
    ELSE tiles_of_features(parsed.features, calculate_bounds(parsed.features),
                           zoom_loop(parsed.features, min_zoom, max_zoom, layer_name),
                           min_zoom, max_zoom, layer_name)

\* generate_tiles_with_metadata
generate_tiles_with_metadata(geojson, min_zoom, max_zoom, layer_name) ==
    tiles_of_parsed(parse_geojson(geojson), min_zoom, max_zoom, layer_name)

\* lines 213-214: the tile files of the result r, or its error
tiles_only(r) == IF ~r.ok THEN r ELSE [ok |-> TRUE, tile_files |-> r.tile_files]

\* generate_tiles: the tile files of generate_tiles_with_metadata
generate_tiles(geojson, min_zoom, max_zoom, layer_name) ==
    tiles_only(generate_tiles_with_metadata(geojson, min_zoom, max_zoom, layer_name))

\* lines 228-246: the archive of the tile files of the result r, their paths
\* parsed back, or the error of r
archive_of_tiles(r) ==
    IF ~r.ok THEN r
    ELSE encode_pmtiles(
             Tuple([i \in 1..Len(r.tile_files) |->
                       [coord |-> parse_tile_path(r.tile_files[i].path),
                        data  |-> r.tile_files[i].data]]),
             r.metadata)

\* generate_pmtiles
generate_pmtiles(geojson, min_zoom, max_zoom, layer_name) ==
    archive_of_tiles(generate_tiles_with_metadata(geojson, min_zoom, max_zoom, layer_name))

(***************************************************************************)
(* The inputs the model draws from                                         *)
(***************************************************************************)

\* bounds of the model
MaxHilbertZoom == 2
MaxTiles       == 2
MaxFeatures    == 2
ZigzagSpan     == 50
MaxCount       == 4
MaxLowZoom     == 1

\* sequences over S of length at most n
SeqsUpTo(S, n) == UNION {[1..k -> S] : k \in 0..n}

U32Max == <<255, 255, 255, 255>>

\* the i32 values zigzag_encode is applied to: a span around 0 and the two
\* ends of the range
ZigzagInputs ==
    (-ZigzagSpan..ZigzagSpan)
        \cup {2147483647 - k : k \in 0..3}
        \cup {(-2147483647 - 1) + k : k \in 0..3}
        \cup {1073741823, 1073741824, -1073741824, -1073741825}

\* the tile coordinates to_path is applied to, in and out of the tile pyramid
PathCoords ==
    [z : {0, 5, 30, 100, 255},
     x : {U32(0), U32(9), U32(10), U32(4096), Shl(U32(1), 31), U32Max},
     y : {U32(0), U32(12), U32(100), U32(65535), U32(2147483647), U32Max}]

NamePts  == <<112, 116, 115>>
NameTest == <<116, 101, 115, 116>>

\* the layer names encode_tile is given: a name and the empty name
LayerNames == {NamePts, <<>>}

Coord(z, x, y) == [z |-> z, x |-> x, y |-> y]

\* the (TileCoord, bytes) pairs encode_pmtiles is given: tiles of the low
\* zooms, two tiles of zoom 29 a quadrant apart and a tile of zoom 31
TileSamples ==
    {[coord |-> Coord(0, U32(0), U32(0)), data |-> <<1, 2, 3, 4>>],
     [coord |-> Coord(1, U32(0), U32(0)), data |-> <<5, 6, 7, 8>>],
     [coord |-> Coord(1, U32(1), U32(0)), data |-> <<9>>],
     [coord |-> Coord(2, U32(3), U32(1)), data |-> <<>>],
     [coord |-> Coord(29, U32(0), U32(0)), data |-> <<1, 2>>],
     [coord |-> Coord(29, U32(0), Shl(U32(1), 28)), data |-> <<3>>],
     [coord |-> Coord(31, U32(0), U32(0)), data |-> <<1, 2, 3, 4>>]}

\* the empty HashMap of fields
NoFields == [x \in {} |-> 0]

\* the metadata encode_pmtiles is given
MetadataSamples ==
    {[min_zoom |-> 0, max_zoom |-> 1, layer_name |-> NameTest,
      bounds |-> <<-180, -85, 180, 85>>, center |-> <<0, 0>>,
      feature_count |-> 3, geometry_type |-> TextPoint,
      fields |-> NoFields, attributes |-> {}],
     [min_zoom |-> 2, max_zoom |-> 14, layer_name |-> NamePts,
      bounds |-> <<-90, 0, 90, 66>>, center |-> <<0, 33>>,
      feature_count |-> 250, geometry_type |-> TextPolygon,
      fields |-> NoFields, attributes |-> {}]}

KeyColor == <<99, 111, 108, 111, 114>>
KeyN     == <<110>>
TextRed  == <<114, 101, 100>>
TextBlue == <<98, 108, 117, 101>>

Square == <<<<0, 0>>, <<0, 4096>>, <<4096, 4096>>, <<4096, 0>>, <<0, 0>>>>
Hole   == <<<<1024, 1024>>, <<2048, 1024>>, <<2048, 2048>>, <<1024, 1024>>>>
Short  == <<<<0, 0>>, <<10, 10>>, <<0, 0>>>>

\* the TileFeatures encode_tile is given: well-formed geometries of each
\* kind, and the degenerate line strings and polygons
TileFeatureSamples ==
    {[geometry |-> [kind |-> "Point", x |-> 2048, y |-> 2048],
      properties |-> <<<<KeyColor, JsonString(TextRed)>>>>],
     [geometry |-> [kind |-> "Point", x |-> -5, y |-> 4100],
      properties |-> <<<<KeyColor, JsonString(TextBlue)>>, <<KeyN, JsonInt(1)>>>>],
     [geometry |-> [kind |-> "Point", x |-> 7, y |-> 9],
      properties |-> <<<<KeyN, JsonNull>>, <<KeyColor, JsonString(<<>>)>>>>],
     [geometry |-> [kind |-> "LineString",
                    coords |-> <<<<10, 20>>, <<30, 5>>, <<30, 40>>>>],
      properties |-> <<<<KeyColor, JsonString(TextRed)>>>>],
     [geometry |-> [kind |-> "LineString", coords |-> <<<<-3, 7>>, <<100, -2>>>>],
      properties |-> <<>>],
     [geometry |-> [kind |-> "LineString", coords |-> <<<<10, 20>>>>],
      properties |-> <<>>],
     [geometry |-> [kind |-> "LineString", coords |-> <<>>],
      properties |-> <<>>],
     [geometry |-> [kind |-> "Polygon", rings |-> <<Square>>],
      properties |-> <<<<KeyN, JsonDouble(<<49, 46, 53>>)>>>>],
     [geometry |-> [kind |-> "Polygon", rings |-> <<Square, Hole>>],
      properties |-> <<<<KeyN, JsonBool(TRUE)>>>>],
     [geometry |-> [kind |-> "Polygon", rings |-> <<Short, Square>>],
      properties |-> <<>>],
     [geometry |-> [kind |-> "Polygon", rings |-> <<Short>>],
      properties |-> <<>>],
     [geometry |-> [kind |-> "Polygon", rings |-> <<>>],
      properties |-> <<>>]}

PointFeature(lon, lat, properties) ==
    [geometry |-> [kind |-> "Point", rings |-> <<<<<<lon, lat>>>>>>],
     properties |-> properties]

\* the documents the entry points are given
DocInvalid == [valid |-> FALSE, features |-> <<>>]
DocEmpty   == [valid |-> TRUE, features |-> <<>>]
DocPoint   == [valid |-> TRUE,
               features |-> <<PointFeature(0, 0, <<<<KeyColor, JsonString(TextRed)>>>>)>>]
DocPoints  == [valid |-> TRUE,
               features |-> <<PointFeature(0, 0, <<<<KeyColor, JsonString(TextRed)>>>>),
                              PointFeature(-90, 66, <<<<KeyColor, JsonString(TextRed)>>>>)>>]
DocMixed   ==
    [valid |-> TRUE,
     features |->
         <<PointFeature(90, -66, <<<<KeyN, JsonInt(1)>>>>),
           [geometry |-> [kind |-> "Polygon",
                          rings |-> <<<<<<0, 0>>, <<0, 66>>, <<90, 66>>,
                                        <<90, 0>>, <<0, 0>>>>>>],
            properties |-> <<<<KeyColor, JsonString(TextBlue)>>>>],
           [geometry |-> [kind |-> "LineString",
                          rings |-> <<<<<<-180, 85>>, <<-90, 66>>>>>>],
            properties |-> <<>>]>>]
DocLines   ==
    [valid |-> TRUE,
     features |->
         <<[geometry |-> [kind |-> "LineString",
                          rings |-> <<<<<<-90, 0>>, <<0, 0>>>>>>],
            properties |-> <<>>],
           [geometry |-> [kind |-> "LineString", rings |-> <<<<<<0, 66>>>>>>],
            properties |-> <<>>]>>]

\* the requests the entry points are given: every document at the low
\* zooms in both orders, and the point documents at the zooms around 30
\* (a feature with an extent touches too many tiles there)
Requests ==
    [geojson : {DocInvalid, DocEmpty, DocPoint, DocPoints, DocMixed, DocLines},
     min_zoom : 0..MaxLowZoom, max_zoom : 0..MaxLowZoom, layer_name : {NamePts}]
        \cup [geojson : {DocPoint, DocPoints},
              min_zoom : {29, 30, 31}, max_zoom : {29, 30, 31},
              layer_name : {NamePts}]

(***************************************************************************)
(* The state: the call made to the library, its arguments and what it      *)
(* returned.  The library keeps nothing between calls.                     *)
(***************************************************************************)

VARIABLES call, input, output

vars == <<call, input, output>>

Init ==
    /\ call = "none"
    /\ input = <<>>
    /\ output = <<>>

\* the points xy_to_hilbert is applied to at the zoom z: the whole grid and
\* one step beyond it (where the coordinates are clamped) at the low zooms,
\* the corners and the middle of the grid at zoom 30
HilbertPoints(z) ==
    IF z <= MaxHilbertZoom
    THEN (0..(2 ^ z)) \X (0..(2 ^ z))
    ELSE {0, 2 ^ (z - 1), 2 ^ z - 1} \X {0, 2 ^ (z - 1), 2 ^ z - 1}

\* xy_to_hilbert at two points p and q of one zoom
XyToHilbert ==
    /\ call = "none"
    /\ \E z \in (0..MaxHilbertZoom) \cup {30} :
         \E p \in HilbertPoints(z), q \in HilbertPoints(z) :
            /\ input' = [z |-> z, p |-> p, q |-> q]
            /\ output' = [p |-> xy_to_hilbert(U32(p[1]), U32(p[2]), z),
                          q |-> xy_to_hilbert(U32(q[1]), U32(q[2]), z)]
    /\ call' = "xy_to_hilbert"

ZigzagEncode ==
    /\ call = "none"
    /\ \E n \in ZigzagInputs :
         /\ input' = n
         /\ output' = zigzag_encode(n)
    /\ call' = "zigzag_encode"

\* to_path, and the path read back as generate_pmtiles reads it
ToPath ==
    /\ call = "none"
    /\ \E coord \in PathCoords :
         /\ input' = coord
         /\ output' = [path |-> to_path(coord), coord |-> parse_tile_path(to_path(coord))]
    /\ call' = "to_path"

EncodeTile ==
    /\ call = "none"
    /\ \E features \in SeqsUpTo(TileFeatureSamples, MaxFeatures),
          layer_name \in LayerNames :
         /\ input' = [features |-> features, layer_name |-> layer_name]
         /\ output' = encode_tile(features, layer_name)
    /\ call' = "encode_tile"

EncodePmtiles ==
    /\ call = "none"
    /\ \E tiles \in SeqsUpTo(TileSamples, MaxTiles), metadata \in MetadataSamples :
         /\ input' = [tiles |-> tiles, metadata |-> metadata]
         /\ output' = encode_pmtiles(tiles, metadata)
    /\ call' = "encode_pmtiles"

GenerateTilesWithMetadata ==
    /\ call = "none"
    /\ \E r \in Requests :
         /\ input' = r
         /\ output' = generate_tiles_with_metadata(r.geojson, r.min_zoom, r.max_zoom,
                                                   r.layer_name)
    /\ call' = "generate_tiles_with_metadata"

GenerateTiles ==
    /\ call = "none"
    /\ \E r \in Requests :
         /\ input' = r
         /\ output' = generate_tiles(r.geojson, r.min_zoom, r.max_zoom, r.layer_name)
    /\ call' = "generate_tiles"

GeneratePmtiles ==
    /\ call = "none"
    /\ \E r \in Requests :
         /\ input' = r
         /\ output' = generate_pmtiles(r.geojson, r.min_zoom, r.max_zoom, r.layer_name)
    /\ call' = "generate_pmtiles"

\* lines 150-169: the geometry type chosen for the counts of the three kinds
DominantGeometryType ==
    /\ call = "none"
    /\ \E point_count \in 0..MaxCount, linestring_count \in 0..MaxCount,
          polygon_count \in 0..MaxCount :
         /\ input' = [point_count |-> point_count,
                      linestring_count |-> linestring_count,
                      polygon_count |-> polygon_count]
         /\ output' = dominant_geometry_type(point_count, linestring_count,
                                             polygon_count)
    /\ call' = "dominant_geometry_type"

Next ==
    \/ XyToHilbert
    \/ ZigzagEncode
    \/ ToPath
    \/ EncodeTile
    \/ EncodePmtiles
    \/ GenerateTilesWithMetadata
    \/ GenerateTiles
    \/ GeneratePmtiles
    \/ DominantGeometryType

\* every call of the library
Spec == Init /\ [][Next]_vars

\* the calls of one part of the library
SpecHilbert == Init /\ [][XyToHilbert]_vars
SpecZigzag  == Init /\ [][ZigzagEncode]_vars
SpecPath    == Init /\ [][ToPath]_vars
SpecMvt     == Init /\ [][EncodeTile]_vars
SpecArchive == Init /\ [][EncodePmtiles \/ GeneratePmtiles]_vars
SpecGeometryType == Init /\ [][DominantGeometryType \/ GenerateTilesWithMetadata]_vars
SpecLib     == Init /\ [][GenerateTilesWithMetadata \/ GenerateTiles \/ GeneratePmtiles]_vars

(***************************************************************************)
(* The properties                                                          *)
(***************************************************************************)

\* an archive was returned
ArchiveReturned == call \in {"encode_pmtiles", "generate_pmtiles"} /\ output.ok

\* C1: every archive returned by generate_pmtiles or encode_pmtiles starts
\* with the seven bytes "PMTiles" followed by the byte 0x03, and is at
\* least 127 bytes long.
C1_ArchiveStartsWithMagic ==
    ArchiveReturned =>
        /\ Len(output.bytes) >= 127
        /\ SubSeq(output.bytes, 1, 8) = <<80, 77, 84, 105, 108, 101, 115, 3>>

\* generate_pmtiles returned an archive of its encoded tiles
C1_Witness ==
    /\ call = "generate_pmtiles"
    /\ output.ok
    /\ Len(output.tile_entries) >= 2

\* C2 as the claim states it: for every list of tiles, the entries handed
\* to the directory encoder have strictly increasing tile ids.
C2_TileIdsStrictlyIncreasing ==
    (call = "encode_pmtiles" /\ output.ok) =>
        \A i \in 1..(Len(output.tile_entries) - 1) :
            Less(output.tile_entries[i].tile_id, output.tile_entries[i + 1].tile_id)

\* C3: in the entries handed to the directory encoder, the first offset is
\* 0 and every further offset is the previous offset plus the previous
\* length, where an entry's length is the length of its gzip-compressed
\* data (the bytes stored in the archive) and not of the tile given.
C3_OffsetsArePrefixSums ==
    ArchiveReturned =>
        LET e == output.tile_entries
        IN  /\ \A i \in 1..Len(e) :
                  /\ e[i].length = Len(e[i].data)
                  /\ e[i].offset = IF i = 1 THEN 0 ELSE e[i - 1].offset + e[i - 1].length
            /\ call = "encode_pmtiles" =>
                  \A i \in 1..Len(e) :
                      \E k \in 1..Len(input.tiles) : e[i].data = gzip(input.tiles[k].data)

\* encode_pmtiles laid out two tiles, the second behind the compressed
\* bytes of the first
C3_Witness ==
    /\ call = "encode_pmtiles"
    /\ output.ok
    /\ Len(output.tile_entries) = 2
    /\ output.tile_entries[2].offset = Len(output.tile_entries[1].data)
    /\ output.tile_entries[2].offset > 0

\* p is a point of the 2^z x 2^z grid
OnGrid(p, z) == p[1] < 2 ^ z /\ p[2] < 2 ^ z

\* C4: at a zoom z, xy_to_hilbert sends the points (x, y) with x, y < 2^z
\* one-to-one onto the indices 0 .. 4^z - 1: an index is below 4^z, two
\* different points have different indices, and at the low zooms (computed
\* once per zoom, in the state of the call at the origin) the indices of
\* the whole grid are all of 0 .. 4^z - 1.
C4_HilbertBijection ==
    call = "xy_to_hilbert" =>
        LET z == input.z
        IN  /\ OnGrid(input.p, z) => Less(output.p, Shl(U64(1), 2 * z))
            /\ (OnGrid(input.p, z) /\ OnGrid(input.q, z) /\ input.p # input.q)
                   => output.p # output.q
            /\ (z <= MaxHilbertZoom /\ input.p = <<0, 0>> /\ input.q = <<0, 0>>)
                   => {xy_to_hilbert(U32(x), U32(y), z) :
                           x \in 0..(2 ^ z - 1), y \in 0..(2 ^ z - 1)}
                      = {U64(d) : d \in 0..(4 ^ z - 1)}

\* xy_to_hilbert was applied to two different points of the zoom 2 grid
C4_Witness ==
    /\ call = "xy_to_hilbert"
    /\ input.z = 2
    /\ input.p = <<3, 0>>
    /\ input.q = <<0, 3>>
    /\ output.p # output.q

\* the four values of the claim, as the index of the point p
QuadrantValue(p) ==
    CASE p = <<0, 0>> -> U64(0)
      [] p = <<1, 0>> -> U64(3)
      [] p = <<1, 1>> -> U64(2)
      [] p = <<0, 1>> -> U64(1)

\* C5 as amended: the values 0, 3, 2, 1 at (0,0), (1,0), (1,1), (0,1) are
\* those of the 2 x 2 grid, zoom 1; at zoom 2 the same four points have the
\* indices 0, 1, 2, 3.
C5_QuadrantOrderAtZoom1 ==
    (call = "xy_to_hilbert" /\ input.p \in (0..1) \X (0..1)) =>
        /\ input.z = 1 => output.p = QuadrantValue(input.p)
        /\ input.z = 2 =>
              output.p = CASE input.p = <<0, 0>> -> U64(0)
                           [] input.p = <<1, 0>> -> U64(1)
                           [] input.p = <<1, 1>> -> U64(2)
                           [] input.p = <<0, 1>> -> U64(3)

\* xy_to_hilbert gave the index 3 to the point (1, 0) of zoom 1
C5_Witness ==
    /\ call = "xy_to_hilbert"
    /\ input.z = 1
    /\ input.p = <<1, 0>>
    /\ output.p = U64(3)

\* C5 as the claim states it: at zoom 2, hilbert(2,0,0) = 0,
\* hilbert(2,1,0) = 3, hilbert(2,1,1) = 2 and hilbert(2,0,1) = 1.
C5_QuadrantOrderAtZoom2 ==
    (call = "xy_to_hilbert" /\ input.z = 2 /\ input.p \in (0..1) \X (0..1)) =>
        output.p = QuadrantValue(input.p)

\* the inverse the claim names: (u >> 1) ^ -(u & 1), as an i32
zigzag_decode(u) ==
    BitsI32(Xor(Shr(u, 1),
                IF u[1] % 2 = 1 THEN <<255, 255, 255, 255>> ELSE <<0, 0, 0, 0>>))

\* C6: for every i32 n, (u >> 1) ^ -(u & 1) applied to zigzag_encode(n)
\* gives n back, and no other i32 of the inputs has the code of n.
C6_ZigzagRoundTrip ==
    call = "zigzag_encode" =>
        /\ zigzag_decode(output) = input
        /\ \A m \in ZigzagInputs : m # input => zigzag_encode(m) # output

\* zigzag_encode was applied to the smallest i32, whose code is u32::MAX
C6_Witness ==
    /\ call = "zigzag_encode"
    /\ input = -2147483647 - 1
    /\ output = <<255, 255, 255, 255>>

\* C7: the path of a tile coordinate has three parts between slashes, each
\* a number that parses (the third once its ".pbf" is removed), so that no
\* fallback value is taken, and the coordinate read back is the coordinate
\* given.
C7_PathRoundTrip ==
    call = "to_path" =>
        LET path_parts == split(output.path, Slash)
        IN  /\ Len(path_parts) = 3
            /\ parse_unsigned(path_parts[1], 1).ok
            /\ parse_unsigned(path_parts[2], 4).ok
            /\ SubSeq(path_parts[3], Len(path_parts[3]) - 3, Len(path_parts[3])) = DotPbf
            /\ parse_unsigned(trim_end_matches(path_parts[3], DotPbf), 4).ok
            /\ output.coord = input

\* to_path was applied to the largest coordinate and read back
C7_Witness ==
    /\ call = "to_path"
    /\ input = [z |-> 255, x |-> U32Max, y |-> U32Max]
    /\ output.coord = input

\* C8 as the claim states it: generate_tiles, generate_tiles_with_metadata
\* and generate_pmtiles fail when max_zoom > 30 or min_zoom > max_zoom, on a
\* well-formed document with features; none of them returns a result.
C8_BadZoomRangeFails ==
    (/\ call \in {"generate_tiles", "generate_tiles_with_metadata", "generate_pmtiles"}
     /\ input.geojson.valid
     /\ input.geojson.features # <<>>
     /\ (input.max_zoom > 30 \/ input.min_zoom > input.max_zoom))
        => ~output.ok

\* C9 as the claim states it: encode_pmtiles fails when one of its tiles
\* has a zoom above 30, and returns no archive.
C9_ZoomAbove30Fails ==
    (/\ call = "encode_pmtiles"
     /\ \E i \in 1..Len(input.tiles) : input.tiles[i].coord.z > 30)
        => ~output.ok

\* a polygon without a ring of four points, or a line string of fewer than
\* two points
Degenerate(geometry) ==
    \/ /\ geometry.kind = "Polygon"
       /\ \A i \in 1..Len(geometry.rings) : Len(geometry.rings[i]) < 4
    \/ /\ geometry.kind = "LineString"
       /\ Len(geometry.coords) < 2

\* C10 as the claim states it: encode_tile fails when one of its features
\* is a polygon without a ring of at least four points or a line string of
\* fewer than two points, and returns no tile.
C10_DegenerateGeometryFails ==
    (/\ call = "encode_tile"
     /\ \E i \in 1..Len(input.features) : Degenerate(input.features[i].geometry))
        => ~output.ok

\* a tile of the pyramid: z <= 30 and x, y < 2^z
WellFormedTile(tile) ==
    /\ tile.coord.z <= 30
    /\ Less(tile.coord.x, Shl(U32(1), tile.coord.z))
    /\ Less(tile.coord.y, Shl(U32(1), tile.coord.z))

\* C11: encode_pmtiles given no tiles returns the error of the empty
\* archive ("Tiles are empty") and no bytes, whatever the metadata; given a
\* list of one or more well-formed tiles it returns bytes, and not none.
C11_EmptyListFails ==
    call = "encode_pmtiles" =>
        /\ input.tiles = <<>> =>
              /\ ~output.ok
              /\ output.err = "Tiles are empty"
              /\ "bytes" \notin DOMAIN output
        /\ (input.tiles # <<>>
            /\ \A i \in 1..Len(input.tiles) : WellFormedTile(input.tiles[i]))
              => (output.ok /\ output.bytes # <<>>)

\* encode_pmtiles was given no tiles and failed
C11_Witness ==
    /\ call = "encode_pmtiles"
    /\ input.tiles = <<>>
    /\ ~output.ok

\* C12: encode_tile given no features fails with the error of the empty
\* tile ("Features are empty") for every layer name, and it fails before
\* anything is encoded: the result holds neither a layer nor bytes.
C12_NoFeaturesFails ==
    (call = "encode_tile" /\ input.features = <<>>) =>
        /\ ~output.ok
        /\ output.err = "Features are empty"
        /\ DOMAIN output = {"ok", "err"}

\* encode_tile was given no features and the empty layer name, and failed
C12_Witness ==
    /\ call = "encode_tile"
    /\ input.features = <<>>
    /\ input.layer_name = <<>>
    /\ ~output.ok

\* C13: in every archive encode_pmtiles emits, the header bytes at offsets
\* 96..99 are 1, 2, 2, 1 (clustered, internal gzip, tile gzip, MVT), the
\* leaf directory offset and length (offsets 40 and 48) are 0, and the
\* three counts at offsets 72, 80 and 88 all equal the number of entries of
\* the input tile list, duplicates included.
C13_HeaderFlagsAndCounts ==
    (call = "encode_pmtiles" /\ output.ok) =>
        /\ SubSeq(output.bytes, 97, 100) = <<1, 2, 2, 1>>
        /\ SubSeq(output.bytes, 41, 48) = U64(0)
        /\ SubSeq(output.bytes, 49, 56) = U64(0)
        /\ SubSeq(output.bytes, 73, 80) = U64(Len(input.tiles))
        /\ SubSeq(output.bytes, 81, 88) = U64(Len(input.tiles))
        /\ SubSeq(output.bytes, 89, 96) = U64(Len(input.tiles))

\* encode_pmtiles returned an archive for a list that holds the same tile
\* twice
C13_Witness ==
    /\ call = "encode_pmtiles"
    /\ output.ok
    /\ Len(input.tiles) = 2
    /\ input.tiles[1] = input.tiles[2]

\* the property keys of the features, in the order the encoder meets them
PropertyKeys(features) ==
    Flatten([f \in 1..Len(features) |->
                [p \in 1..Len(features[f].properties) |->
                    features[f].properties[p][1]]])

\* the place of the first x in seq
FirstAt(seq, x) ==
    CHOOSE i \in 1..Len(seq) : seq[i] = x /\ \A j \in 1..(i - 1) : seq[j] # x

\* C14: in the layer encode_tile builds, keys holds each distinct property
\* key of the tile once, in the order of first appearance; the tags of a
\* feature are two entries per property; in each pair (k, v), k < len(keys),
\* v < len(values) and keys[k] is the property's key; and the same property
\* in two features gets the same pair.
C14_KeysInterned ==
    (call = "encode_tile" /\ output.ok) =>
        LET feats  == input.features
            keys   == output.layer.keys
            values == output.layer.values
            enc    == output.layer.features
            met    == PropertyKeys(feats)
        IN  /\ {keys[i] : i \in 1..Len(keys)} = {met[i] : i \in 1..Len(met)}
            /\ \A i, j \in 1..Len(keys) :
                   i < j => /\ keys[i] # keys[j]
                            /\ FirstAt(met, keys[i]) < FirstAt(met, keys[j])
            /\ Len(enc) = Len(feats)
            /\ \A f \in 1..Len(feats) :
                   /\ Len(enc[f].tags) = 2 * Len(feats[f].properties)
                   /\ \A p \in 1..Len(feats[f].properties) :
                          /\ enc[f].tags[2 * p - 1] \in 0..(Len(keys) - 1)
                          /\ enc[f].tags[2 * p] \in 0..(Len(values) - 1)
                          /\ keys[enc[f].tags[2 * p - 1] + 1] = feats[f].properties[p][1]
            /\ \A f, g \in 1..Len(feats) :
                   \A p \in 1..Len(feats[f].properties),
                      q \in 1..Len(feats[g].properties) :
                       feats[f].properties[p] = feats[g].properties[q]
                           => /\ enc[f].tags[2 * p - 1] = enc[g].tags[2 * q - 1]
                              /\ enc[f].tags[2 * p] = enc[g].tags[2 * q]

\* encode_tile built a layer with two keys for two features that have a
\* property in common
C14_Witness ==
    /\ call = "encode_tile"
    /\ output.ok
    /\ Len(input.features) = 2
    /\ Len(output.layer.keys) = 2
    /\ \E p \in 1..Len(input.features[1].properties),
          q \in 1..Len(input.features[2].properties) :
           input.features[1].properties[p] = input.features[2].properties[q]

\* C15 as the claim states it: within one tile, two property values get the
\* same value index if and only if they have the same type and the same
\* payload, and the slot a tag names holds the MVT value of the property's
\* own value; a null and an empty string never share a slot.
C15_ValuesInternedByTypeAndPayload ==
    (call = "encode_tile" /\ output.ok) =>
        LET feats  == input.features
            values == output.layer.values
            enc    == output.layer.features
        IN  /\ \A f \in 1..Len(feats) :
                   \A p \in 1..Len(feats[f].properties) :
                       values[enc[f].tags[2 * p] + 1]
                           = json_to_mvt_value(feats[f].properties[p][2])
            /\ \A f, g \in 1..Len(feats) :
                   \A p \in 1..Len(feats[f].properties),
                      q \in 1..Len(feats[g].properties) :
                       (enc[f].tags[2 * p] = enc[g].tags[2 * q])
                           <=> (feats[f].properties[p][2] = feats[g].properties[q][2])

\* the number of integers a ring of the claim contributes: nothing below 4
\* points, else 3 for the MoveTo, 1 + 2(k - 1) for the LineTo and 1 for the
\* ClosePath, with k = length - 1
RingLength(ring) == IF Len(ring) < 4 THEN 0 ELSE 2 * Len(ring) + 1

\* the number of integers in front of ring r of rings
RingOffset(rings, r) == Sum([i \in 1..(r - 1) |-> RingLength(rings[i])])

\* the stream holds, for every ring of rings, what the claim says
RingsAsClaimed(stream, rings) ==
    /\ Len(stream) = RingOffset(rings, Len(rings) + 1)
    /\ \A r \in 1..Len(rings) :
           Len(rings[r]) >= 4 =>
               LET ring == rings[r]
                   k    == Len(ring) - 1
                   o    == RingOffset(rings, r)
               IN  /\ stream[o + 1] = U32(9)
                   /\ stream[o + 4] = U32((k - 1) * 8 + 2)
                   /\ \A j \in 1..(k - 1) :
                          /\ zigzag_decode(stream[o + 3 + 2 * j])
                                 = ring[j + 1][1] - ring[j][1]
                          /\ zigzag_decode(stream[o + 4 + 2 * j])
                                 = ring[j + 1][2] - ring[j][2]
                   /\ stream[o + 2 * k + 3] = U32(15)

\* C16: in the geometry of a Polygon, each ring of length >= 4 contributes
\* MoveTo(1) (9) and 2 parameters, LineTo(k - 1) and the 2(k - 1) zig-zag
\* deltas between consecutive vertices (k = length - 1, the closing point
\* dropped), then ClosePath (15); shorter rings contribute nothing; the
\* square ring of 5 points alone gives one MoveTo(1), one LineTo(3) and a
\* final 15.
C16_PolygonRingCommands ==
    (call = "encode_tile" /\ output.ok) =>
        \A f \in 1..Len(input.features) :
            input.features[f].geometry.kind = "Polygon" =>
                LET stream == output.layer.features[f].geometry
                    rings  == input.features[f].geometry.rings
                IN  /\ RingsAsClaimed(stream, rings)
                    /\ rings = <<Square>> =>
                           /\ Cardinality({i \in 1..Len(stream) : stream[i] = U32(9)}) = 1
                           /\ Cardinality({i \in 1..Len(stream) : stream[i] = U32(26)}) = 1
                           /\ stream[Len(stream)] = U32(15)

\* encode_tile encoded a polygon of a ring too short to count and the
\* square ring
C16_Witness ==
    /\ call = "encode_tile"
    /\ output.ok
    /\ \E f \in 1..Len(input.features) :
           /\ input.features[f].geometry.kind = "Polygon"
           /\ input.features[f].geometry.rings = <<Short, Square>>
           /\ Len(output.layer.features[f].geometry) = 11

\* the cursor a decoder holds before ring r of rings: the last vertex the
\* nearest earlier ring of 4 or more points emitted (its closing point is
\* not emitted), or (0, 0) when there is none
CursorBefore(rings, r) ==
    LET earlier == {i \in 1..(r - 1) : Len(rings[i]) >= 4}
    IN  IF earlier = {} THEN <<0, 0>>
        ELSE LET last == CHOOSE i \in earlier : \A j \in earlier : j <= i
             IN  rings[last][Len(rings[last]) - 1]

\* C17 as the claim states it: in the geometry of a Polygon the MoveTo
\* parameters of the first ring are the zig-zag of its first vertex against
\* (0, 0), and those of every later ring are the zig-zag deltas of its
\* first vertex against the cursor the ring before left.
C17_RingMoveToAgainstCursor ==
    (call = "encode_tile" /\ output.ok) =>
        \A f \in 1..Len(input.features) :
            input.features[f].geometry.kind = "Polygon" =>
                LET stream == output.layer.features[f].geometry
                    rings  == input.features[f].geometry.rings
                IN  \A r \in 1..Len(rings) :
                        Len(rings[r]) >= 4 =>
                            LET o      == RingOffset(rings, r)
                                cursor == CursorBefore(rings, r)
                            IN  /\ zigzag_decode(stream[o + 2])
                                       = rings[r][1][1] - cursor[1]
                                /\ zigzag_decode(stream[o + 3])
                                       = rings[r][1][2] - cursor[2]

RECURSIVE DecodeLine(_, _, _, _)
\* the points a decoder reads from the parameter pairs of stream at
\* positions at, at + 2, .. below Len(stream), each added to the cursor
DecodeLine(stream, at, cursor, points) ==
    IF at + 1 > Len(stream) THEN points
    ELSE LET next == <<cursor[1] + zigzag_decode(stream[at]),
                       cursor[2] + zigzag_decode(stream[at + 1])>>
         IN  DecodeLine(stream, at + 2, next, Append(points, next))

\* C18: for a LineString of n >= 2 points the geometry is MoveTo(1), the
\* zig-zag of the first point, LineTo(n - 1) and n - 1 zig-zag delta pairs,
\* 2n + 2 integers in all, and a decoder that adds up the deltas from
\* (0, 0) gets the n points back in order.
C18_LineStringCommands ==
    (call = "encode_tile" /\ output.ok) =>
        \A f \in 1..Len(input.features) :
            (/\ input.features[f].geometry.kind = "LineString"
             /\ Len(input.features[f].geometry.coords) >= 2) =>
                LET stream == output.layer.features[f].geometry
                    coords == input.features[f].geometry.coords
                    n      == Len(coords)
                    first  == <<zigzag_decode(stream[2]), zigzag_decode(stream[3])>>
                IN  /\ Len(stream) = 2 * n + 2
                    /\ stream[1] = U32(9)
                    /\ stream[2] = zigzag_encode(coords[1][1])
                    /\ stream[3] = zigzag_encode(coords[1][2])
                    /\ stream[4] = U32((n - 1) * 8 + 2)
                    /\ \A i \in 2..n :
                           /\ zigzag_decode(stream[2 * i + 1])
                                  = coords[i][1] - coords[i - 1][1]
                           /\ zigzag_decode(stream[2 * i + 2])
                                  = coords[i][2] - coords[i - 1][2]
                    /\ DecodeLine(stream, 5, first, <<first>>) = coords

\* encode_tile encoded the line string of three points
C18_Witness ==
    /\ call = "encode_tile"
    /\ output.ok
    /\ \E f \in 1..Len(input.features) :
           /\ input.features[f].geometry.kind = "LineString"
           /\ Len(input.features[f].geometry.coords) = 3
           /\ Len(output.layer.features[f].geometry) = 8

\* the zooms of the tiles of a returned tile list, read from their paths
ZoomsOf(tile_files) ==
    [i \in 1..Len(tile_files) |-> parse_tile_path(tile_files[i].path).z]

\* C19: the tile list generate_tiles and generate_tiles_with_metadata
\* return is ordered by zoom ascending: of two tiles of different zooms the
\* one of the lower zoom comes first; and every zoom of
\* [min_zoom, max_zoom] is processed once, in increasing order: the tiles
\* of a zoom lie together, no zoom outside the range has tiles, and with
\* features in the document every zoom of the range has some.
C19_TilesByZoomAscending ==
    (call \in {"generate_tiles", "generate_tiles_with_metadata"} /\ output.ok) =>
        LET zooms == ZoomsOf(output.tile_files)
        IN  /\ \A i, j \in 1..Len(zooms) : i < j => zooms[i] <= zooms[j]
            /\ \A i \in 1..Len(zooms) : zooms[i] \in input.min_zoom..input.max_zoom
            /\ input.geojson.features # <<>> =>
                   {zooms[i] : i \in 1..Len(zooms)} = input.min_zoom..input.max_zoom

\* generate_tiles returned the tiles of two zooms, more than one of them at
\* the higher zoom
C19_Witness ==
    /\ call = "generate_tiles"
    /\ output.ok
    /\ input.min_zoom < input.max_zoom
    /\ Len(output.tile_files) >= 3
    /\ ZoomsOf(output.tile_files)[1] < ZoomsOf(output.tile_files)[Len(output.tile_files)]

\* C20 as the claim states it: for tiles with z <= 30 and x, y < 2^z, the
\* top byte of a tile id is the zoom (tile_id >> 56 = z) and two distinct
\* coordinates never get the same tile id.
C20_ZoomInTopByte ==
    (/\ call = "encode_pmtiles"
     /\ output.ok
     /\ \A i \in 1..Len(input.tiles) : WellFormedTile(input.tiles[i])) =>
        LET e == output.tile_entries
        IN  /\ {Shr(e[i].tile_id, 56) : i \in 1..Len(e)}
                   = {U64(input.tiles[i].coord.z) : i \in 1..Len(input.tiles)}
            /\ (\A i, j \in 1..Len(input.tiles) :
                    i # j => input.tiles[i].coord # input.tiles[j].coord)
                   => \A i, j \in 1..Len(e) : i # j => e[i].tile_id # e[j].tile_id

\* the kind chosen for the counts is as the claim says: its count is at
\* least both others, and no kind before it in the order polygon, line
\* string, point has the same count
KindAsClaimed(kind, point_count, linestring_count, polygon_count) ==
    /\ kind \in {TextPolygon, TextLineString, TextPoint}
    /\ kind = TextPolygon =>
           /\ polygon_count >= linestring_count
           /\ polygon_count >= point_count
    /\ kind = TextLineString =>
           /\ linestring_count >= polygon_count
           /\ linestring_count >= point_count
           /\ polygon_count # linestring_count
    /\ kind = TextPoint =>
           /\ point_count >= polygon_count
           /\ point_count >= linestring_count
           /\ polygon_count # point_count
           /\ linestring_count # point_count

\* C21: the geometry_type of the TileMetadata is the kind with the highest
\* feature count among Polygon, LineString and Point, for every combination
\* of the three counts, ties broken polygon > line string > point.
C21_GeometryTypeIsDominant ==
    /\ call = "dominant_geometry_type" =>
           KindAsClaimed(output, input.point_count, input.linestring_count,
                         input.polygon_count)
    /\ (call = "generate_tiles_with_metadata" /\ output.ok) =>
           KindAsClaimed(output.metadata.geometry_type,
                         CountKind(input.geojson.features, "Point"),
                         CountKind(input.geojson.features, "LineString"),
                         CountKind(input.geojson.features, "Polygon"))

\* the type was chosen for as many polygons as line strings, and fewer
\* points
C21_Witness ==
    /\ call = "dominant_geometry_type"
    /\ input.polygon_count = input.linestring_count
    /\ input.point_count < input.polygon_count
    /\ output = TextPolygon

\* the u64 header field at the offset off of the archive b, which is below
\* 2^31 in every archive of the model
HeaderField(b, off) == LEToNat(SubSeq(b, off + 1, off + 4))

\* C22: every archive encode_pmtiles emits is laid out without gaps or
\* overlaps and agrees with its header: root_dir_offset = 127,
\* json_metadata_offset = 127 + root_dir_length, tile_data_offset =
\* json_metadata_offset + json_metadata_length, tile_data_length = the sum
\* of the compressed tile lengths, the buffer ends where the tile data
\* ends, the directory and the JSON metadata fill their regions, and the
\* blob of entry i lies at tile_data_offset + offset[i] for length[i]
\* bytes, the blobs in ascending order of tile id.
C22_ArchiveLayout ==
    (call = "encode_pmtiles" /\ output.ok) =>
        LET b         == output.bytes
            e         == output.tile_entries
            root_off  == HeaderField(b, 8)
            root_len  == HeaderField(b, 16)
            json_off  == HeaderField(b, 24)
            json_len  == HeaderField(b, 32)
            tiles_off == HeaderField(b, 56)
            tiles_len == HeaderField(b, 64)
        IN  /\ \A off \in {8, 16, 24, 32, 56, 64} :
                   SubSeq(b, off + 5, off + 8) = <<0, 0, 0, 0>>
            /\ root_off = 127
            /\ json_off = 127 + root_len
            /\ tiles_off = json_off + json_len
            /\ tiles_len = Sum([i \in 1..Len(e) |-> e[i].length])
            /\ Len(b) = tiles_off + tiles_len
            /\ SubSeq(b, root_off + 1, root_off + root_len) = encode_directory(e)
            /\ SubSeq(b, json_off + 1, json_off + json_len)
                   = generate_json_metadata(input.metadata)
            /\ Len(e) = Len(input.tiles)
            /\ \A i \in 1..Len(e) :
                   /\ SubSeq(b, tiles_off + e[i].offset + 1,
                             tiles_off + e[i].offset + e[i].length) = e[i].data
                   /\ \E t \in 1..Len(input.tiles) :
                          /\ e[i].data = gzip(input.tiles[t].data)
                          /\ e[i].tile_id = coord_to_tile_id(input.tiles[t].coord.z,
                                                             input.tiles[t].coord.x,
                                                             input.tiles[t].coord.y)
                   /\ i > 1 => /\ ~Less(e[i].tile_id, e[i - 1].tile_id)
                               /\ e[i].offset = e[i - 1].offset + e[i - 1].length
                   /\ i = 1 => e[i].offset = 0

\* encode_pmtiles wrote an archive of two tiles given in descending order
\* of tile id, the blobs of different lengths
C22_Witness ==
    /\ call = "encode_pmtiles"
    /\ output.ok
    /\ Len(input.tiles) = 2
    /\ Less(coord_to_tile_id(input.tiles[2].coord.z, input.tiles[2].coord.x,
                             input.tiles[2].coord.y),
            coord_to_tile_id(input.tiles[1].coord.z, input.tiles[1].coord.x,
                             input.tiles[1].coord.y))
    /\ output.tile_entries[1].length # output.tile_entries[2].length

\* the data of a gzip member of one stored block: what lies between its 15
\* bytes of headers and its 8 bytes of trailer
gunzip(z) == SubSeq(z, 16, Len(z) - 8)

\* the place in buf of the last byte of its k-th varint: the k-th byte
\* without the continuation bit
VarintEnd(buf, k) ==
    IF k = 0 THEN 0
    ELSE CHOOSE i \in 1..Len(buf) :
             /\ buf[i] < 128
             /\ Cardinality({j \in 1..i : buf[j] < 128}) = k

RECURSIVE DecodeVarint(_, _)
\* the u64 of the LEB128 bytes from the k-th on: 7 bits a byte, lowest first
DecodeVarint(bytes, k) ==
    IF k > Len(bytes) THEN U64(0)
    ELSE Or(Shl(U64(bytes[k] % 128), 7 * (k - 1)), DecodeVarint(bytes, k + 1))

\* the varints of buf, decoded, in order
DecodeVarints(buf) ==
    [k \in 1..Cardinality({j \in 1..Len(buf) : buf[j] < 128}) |->
        DecodeVarint(SubSeq(buf, VarintEnd(buf, k - 1) + 1, VarintEnd(buf, k)), 1)]

\* the integer of a zig-zag code below 2^31
SmallZigzagDecode(u) ==
    IF LEToNat(u) % 2 = 0 THEN LEToNat(u) \div 2 ELSE -((LEToNat(u) + 1) \div 2)

RECURSIVE RunningId(_, _, _)
\* the sum of the u64 values v[from + 1 .. from + i]
RunningId(v, from, i) ==
    IF i = 0 THEN U64(0) ELSE Add(RunningId(v, from, i - 1), v[from + i])

RECURSIVE RunningSum(_, _, _)
\* the sum of the zig-zag decoded values v[from + 1 .. from + i]
RunningSum(v, from, i) ==
    IF i = 0 THEN 0
    ELSE RunningSum(v, from, i - 1) + SmallZigzagDecode(v[from + i])

\* C23: the uncompressed directory is a varint entry count followed by
\* four sections of that many varints each: tile id deltas (unsigned, the
\* first against 0), run lengths all 1, length deltas and offset deltas
\* (zig-zag, the first against 0).  LEB128-decoding, zig-zag-decoding and
\* running sums give back the tile_id, length and offset of every entry in
\* order, and no tile id is below the one before it, so that no delta
\* underflows.
C23_DirectoryRoundTrip ==
    (call = "encode_pmtiles" /\ output.ok) =>
        LET e   == output.tile_entries
            n   == Len(e)
            dir == SubSeq(output.bytes, 128, 127 + HeaderField(output.bytes, 16))
            buf == gunzip(dir)
            v   == DecodeVarints(buf)
        IN  /\ dir = gzip(buf)
            /\ buf[Len(buf)] < 128
            /\ Len(v) = 1 + 4 * n
            /\ v[1] = U64(n)
            /\ \A i \in 1..n :
                   /\ RunningId(v, 1, i) = e[i].tile_id
                   /\ v[1 + n + i] = U64(1)
                   /\ RunningSum(v, 1 + 2 * n, i) = e[i].length
                   /\ RunningSum(v, 1 + 3 * n, i) = e[i].offset
                   /\ i > 1 => ~Less(e[i].tile_id, e[i - 1].tile_id)

\* the directory of two entries was written, the second blob shorter than
\* the first (a negative length delta) and of a tile id of nine varint bytes
C23_Witness ==
    /\ call = "encode_pmtiles"
    /\ output.ok
    /\ Len(output.tile_entries) = 2
    /\ output.tile_entries[2].length < output.tile_entries[1].length
    /\ output.tile_entries[2].tile_id[8] > 0

====
